---------------------------- MODULE Spec2Model ----------------------------
(***************************************************************************)
(* Model of pi0/directions/estimator.py: FragmentEstimator and             *)
(* DirectionEstimator.                                                     *)
(*                                                                         *)
(* Geometry.  The shower voxels lie on the x axis of the detector, one     *)
(* voxel per cell 0..MaxCoord, listed in cell order; a voxel is            *)
(* [x |-> cell, e |-> energy].  Primaries lie on cells of the same axis.   *)
(* A coordinate is therefore its x component (y = z = 0).  Energies are in *)
(* units of the energy threshold.  Distances are |x1 - x2|, exact.         *)
(*                                                                         *)
(* Vectors.  A direction is [x, y, d]: the vector (x/d, y/d, 0), in lowest *)
(* terms; d = 0 is numpy's NaN vector.  The y component is needed because  *)
(* the principal axis of a fragment without spread is an arbitrary unit    *)
(* vector.  Every vector that arises is parallel to a coordinate axis.     *)
(*                                                                         *)
(* Python's None and an attribute that was never assigned are <<>>; a      *)
(* value v that was assigned is <<v>>.  Array positions are 1-based.       *)
(*                                                                         *)
(* Arguments.  weights is None, its default, in every call.                *)
(*                                                                         *)
(* Lifecycle.  A behaviour is the construction of one estimator followed   *)
(* by its first call.  No method reads a persisted field before writing it *)
(* (lines 85-100, 135-156), so a later call writes what a first call with  *)
(* the same arguments writes.                                              *)
(***************************************************************************)
EXTENDS Integers, Sequences, FiniteSets

VARIABLES
    eps, min_samples, min_energy,   \* constructor arguments (line 12)
    frag_labels,                    \* self._frag_labels   (line 39)
    centroids,                      \* self._centroids     (line 67)
    coords,                         \* self._coords        (lines 16, 97)
    labels,                         \* self._labels        (lines 17, 98)
    clusts,                         \* self._clusts        (lines 18, 99)
    voxel_weights,                  \* self._voxel_weights (line 95)
    primaries,                      \* self._primaries     (line 100)
    directions,                     \* self._directions    (lines 127, 155)
    call,                           \* the arguments of the call made, <<>> before it
    outcome                         \* how the call ended

vars == <<eps, min_samples, min_energy, frag_labels, centroids, coords, labels,
          clusts, voxel_weights, primaries, directions, call, outcome>>

-----------------------------------------------------------------------------
(* Bounds and input sets *)

MaxCoord == 3
MaxPrimaries == 2

NOISE == -1

None == <<>>
Some(v) == <<v>>

EpsChoices == {1}
MinSamplesChoices == {1, 2}
MinEnergyChoices == {1}
Energies == {1, 2}
Modes == {"pca", "cent", "bogus"}

Inf == [inf |-> TRUE, val |-> 0]
Finite(v) == [inf |-> FALSE, val |-> v]
MaxDistances == {Inf, Finite(1), Finite(2)}

Clouds ==
    { [i \in 1..(MaxCoord + 1) |-> [x |-> i - 1, e |-> en[i]]] :
        en \in [1..(MaxCoord + 1) -> Energies] }

PrimarySeqs == UNION { [1..n -> 0..MaxCoord] : n \in 0..MaxPrimaries }

-----------------------------------------------------------------------------
(* numpy helpers *)

Abs(a) == IF a < 0 THEN -a ELSE a

Sign(a) == IF a < 0 THEN -1 ELSE IF a = 0 THEN 0 ELSE 1

RECURSIVE Gcd(_, _)
Gcd(a, b) == IF b = 0 THEN a ELSE Gcd(b, a % b)

RECURSIVE Sum(_)
Sum(s) == IF s = <<>> THEN 0 ELSE Head(s) + Sum(Tail(s))

\* np.where(mask)[0]: the positions where mask holds, ascending
RECURSIVE WhereFrom(_, _)
WhereFrom(mask, i) ==
    IF i > Len(mask) THEN <<>>
    ELSE IF mask[i] THEN <<i>> \o WhereFrom(mask, i + 1)
    ELSE WhereFrom(mask, i + 1)

Where(mask) == WhereFrom(mask, 1)

\* an array with its entries computed, as numpy holds it
Array(s) == s \o <<>>

\* a[idx] for an index array, and a[mask] for a boolean mask
Take(a, idx) == Array([k \in 1..Len(idx) |-> a[idx[k]]])

Masked(a, mask) == Take(a, Where(mask))

\* np.argmin of a non-empty column: the first position of the minimum
ArgMin(col) ==
    CHOOSE i \in 1..Len(col) :
        /\ \A j \in 1..Len(col) : col[i] <= col[j]
        /\ \A j \in 1..(i - 1) : col[j] > col[i]

\* np.min of a non-empty row
Min(row) == row[ArgMin(row)]

\* d < max_distance, with max_distance possibly float('inf')
Below(d, maxd) == maxd.inf \/ d < maxd.val

-----------------------------------------------------------------------------
(* Vectors *)

Vec(x, y, d) ==
    IF d = 0 THEN [x |-> 0, y |-> 0, d |-> 0]
    ELSE LET g == Gcd(Gcd(Abs(x), Abs(y)), d)
         IN  [x |-> x \div g, y |-> y \div g, d |-> d \div g]

NaN == Vec(0, 0, 0)

IsNaN(v) == v.d = 0

IsZero(v) == v.d # 0 /\ v.x = 0 /\ v.y = 0

\* v * s for a scalar s: NaN stays NaN
Scale(v, s) == Vec(v.x * s, v.y * s, v.d)

\* the sign of u . v; defined when neither is NaN
DotSign(u, v) == Sign(u.x * v.x + u.y * v.y)

\* v / np.linalg.norm(v) (lines 153-154): 0/0 is NaN, no exception is raised;
\* a vector parallel to a coordinate axis becomes that axis' unit vector
DivideByNorm(v) ==
    IF IsNaN(v) \/ IsZero(v) THEN NaN ELSE Vec(Sign(v.x), Sign(v.y), 1)

\* the unit vectors a decomposition may return in this geometry
Axes == {Vec(1, 0, 1), Vec(-1, 0, 1), Vec(0, 1, 1), Vec(0, -1, 1)}

-----------------------------------------------------------------------------
(* sklearn.cluster.DBSCAN(eps, min_samples).fit_predict on x coordinates *)

Neighborhood(xs, i, e) == {j \in 1..Len(xs) : Abs(xs[i] - xs[j]) <= e}

IsCore(xs, i, e, ms) == Cardinality(Neighborhood(xs, i, e)) >= ms

\* the points a depth-first search from the points of S labels: the unlabelled
\* neighbours of every core point reached
RECURSIVE Expand(_, _, _, _, _)
Expand(xs, lab, S, e, ms) ==
    LET more == {v \in 1..Len(xs) :
                    /\ lab[v] = NOISE
                    /\ \E u \in S : IsCore(xs, u, e, ms) /\ v \in Neighborhood(xs, u, e)}
    IN  IF more \subseteq S THEN S ELSE Expand(xs, lab, S \cup more, e, ms)

RECURSIVE DbscanInner(_, _, _, _, _, _)
DbscanInner(xs, lab, i, num, e, ms) ==
    IF i > Len(xs) THEN lab
    ELSE IF lab[i] # NOISE \/ ~IsCore(xs, i, e, ms)
         THEN DbscanInner(xs, lab, i + 1, num, e, ms)
         ELSE LET C == Expand(xs, lab, {i}, e, ms)
              IN  DbscanInner(xs, Array([k \in 1..Len(xs) |-> IF k \in C THEN num ELSE lab[k]]),
                              i + 1, num + 1, e, ms)

\* defined for a non-empty array; an empty one is refused (make_shower_frags)
fit_predict(xs, e, ms) ==
    DbscanInner(xs, Array([k \in 1..Len(xs) |-> NOISE]), 1, 0, e, ms)

-----------------------------------------------------------------------------
(* FragmentEstimator *)

\* lines 36-40.  raised: fit_predict refuses an array of 0 samples with a
\* ValueError, and line 39 is not reached.
make_shower_frags(shower_energy, e, ms, mine) ==
    LET mask == Array([i \in 1..Len(shower_energy) |-> shower_energy[i].e > mine])
        xs == Masked([i \in 1..Len(shower_energy) |-> shower_energy[i].x], mask)
    IN  IF xs = <<>>
        THEN [raised |-> TRUE, frag_labels |-> <<>>, mask |-> mask]
        ELSE [raised |-> FALSE, frag_labels |-> fit_predict(xs, e, ms), mask |-> mask]

\* lines 61-63: np.where(labels == c), and the mean of the selected coordinates
\* as the pair sum / n (n = 0: the mean of an empty slice, NaN, with a warning)
ClusterOf(xs, labs, c) ==
    LET ind == Where([q \in 1..Len(labs) |-> labs[q] = c])
    IN  [ind |-> ind, centroid |-> Vec(Sum(Take(xs, ind)), 0, Len(ind))]

\* ClustersFrom without the test of line 60
RECURSIVE ClustersFrom_NoSkip(_, _, _, _)
ClustersFrom_NoSkip(xs, labs, frags, j) ==
    IF j > Len(frags) THEN <<>>
    ELSE <<ClusterOf(xs, labs, frags[j])>> \o ClustersFrom_NoSkip(xs, labs, frags, j + 1)

\* lines 57-70: one entry per fragment label that is not noise, in the order of
\* frags
RECURSIVE ClustersFrom(_, _, _, _)
ClustersFrom(xs, labs, frags, j) ==
    IF j > Len(frags) THEN <<>>
    ELSE IF frags[j] = NOISE THEN ClustersFrom(xs, labs, frags, j + 1)
    ELSE <<ClusterOf(xs, labs, frags[j])>> \o ClustersFrom(xs, labs, frags, j + 1)

\* find_cluster_indices looping over the distinct labels of frags
find_cluster_indices_unique(xs, labs, frags) ==
    LET first == Where([j \in 1..Len(frags) |-> \A k \in 1..(j - 1) : frags[k] # frags[j]])
        cs == ClustersFrom(xs, labs, Take(frags, first), 1)
    IN  [clusts |-> Array([k \in 1..Len(cs) |-> cs[k].ind]),
         centroids |-> Array([k \in 1..Len(cs) |-> cs[k].centroid])]

find_cluster_indices(xs, labs, frags) ==
    LET cs == ClustersFrom(xs, labs, frags, 1)
    IN  [clusts |-> Array([k \in 1..Len(cs) |-> cs[k].ind]),
         centroids |-> Array([k \in 1..Len(cs) |-> cs[k].centroid])]

\* distance_mask with <= for <
distance_mask_inclusive(min_dists, maxd) ==
    Array([i \in 1..Len(min_dists) |-> maxd.inf \/ min_dists[i] <= maxd.val])

\* line 93
distance_mask(min_dists, maxd) ==
    Array([i \in 1..Len(min_dists) |-> Below(min_dists[i], maxd)])

\* line 92: np.isin(labels, frags)
fragment_mask(labs, frags) ==
    Array([i \in 1..Len(labs) |-> \E j \in 1..Len(frags) : frags[j] = labs[i]])

\* lines 85-100.  stage: "dbscan" when line 85 raises, "min" when np.min of
\* line 90 raises (a row of Y has no entry: no primaries), "done" otherwise.
assign_frags_to_primary(shower_energy, prims, maxd, e, ms, mine) ==
    LET f == make_shower_frags(shower_energy, e, ms, mine)
        labs == f.frag_labels
        xs == Masked([i \in 1..Len(shower_energy) |-> shower_energy[i].x], f.mask)
        energies == Masked([i \in 1..Len(shower_energy) |-> shower_energy[i].e], f.mask)
        nothing == [stage |-> "dbscan", frag_labels |-> <<>>, frags |-> <<>>,
                    voxel_weights |-> <<>>, coords |-> <<>>, labels |-> <<>>,
                    clusts |-> <<>>, centroids |-> <<>>]
    IN  IF f.raised THEN nothing
        ELSE IF Len(prims) = 0
        THEN [nothing EXCEPT !.stage = "min", !.frag_labels = labs]
        ELSE
        LET Y == [i \in 1..Len(xs) |-> [j \in 1..Len(prims) |-> Abs(xs[i] - prims[j])]]
            min_dists == Array([i \in 1..Len(xs) |-> Min(Y[i])])
            ind == Array([j \in 1..Len(prims) |-> ArgMin([i \in 1..Len(xs) |-> Y[i][j]])])
            frags == Take(labs, ind)
            fmask == fragment_mask(labs, frags)
            dmask == distance_mask(min_dists, maxd)
            mask2 == Array([i \in 1..Len(xs) |-> fmask[i] /\ dmask[i]])
            c == find_cluster_indices(Masked(xs, mask2), Masked(labs, mask2), frags)
        IN  [stage |-> "done", frag_labels |-> labs, frags |-> frags,
             voxel_weights |-> Masked(energies, mask2),
             coords |-> Masked(xs, mask2), labels |-> Masked(labs, mask2),
             clusts |-> c.clusts, centroids |-> c.centroids]

-----------------------------------------------------------------------------
(* DirectionEstimator *)

ErrDbscan == "ValueError: Found array with 0 sample(s) (DBSCAN)"
ErrMin == "ValueError: zero-size array to reduction operation minimum"
ErrConsistency == "AssertionError: FragmentEstimator did not find a fragment for each primary"
ErrMode == "ValueError: Invalid Direction Estimation Mode"
ErrPca == "ValueError: Found array with 0 sample(s) (PCA)"

\* lines 163-165: the axes PCA(n_components=1) may return for the points xs.
\* No axis for an empty array (fit raises ValueError); the x axis with either
\* sign when the points are spread; any unit vector when they are not.
pca_estimate(xs) ==
    IF xs = <<>> THEN {}
    ELSE IF \E i, j \in 1..Len(xs) : xs[i] # xs[j] THEN {Vec(1, 0, 1), Vec(-1, 0, 1)}
    ELSE Axes

\* lines 180-183: np.sign of the dot product of mean(coords - origin) with direction
compute_parity_flip(xs, direction, origin) ==
    LET mean == Vec(Sum(xs) - Len(xs) * origin, 0, Len(xs))
    IN  DotSign(mean, direction)

\* lines 158-161, weights=None: np.average of an empty array is NaN, with a warning
centroid_estimate(xs, primary) ==
    Vec(Sum(xs) - Len(xs) * primary, 0, Len(xs))

\* lines 142-145
pca_direction(xs, axis, origin) == Scale(axis, compute_parity_flip(xs, axis, origin))

\* the number of pca_estimate calls of the loop of lines 139-150 that return
PcaCalls(a, prims, mode) ==
    IF a.stage # "done" \/ Len(a.clusts) # Len(prims) \/ mode # "pca" THEN 0
    ELSE LET empty == {i \in 1..Len(prims) : a.clusts[i] = <<>>}
         IN  IF empty = {} THEN Len(prims)
             ELSE (CHOOSE i \in empty : \A k \in empty : i <= k) - 1

\* the axes those calls may return, in call order: the decomposition is a
\* function of its input, so equal point sets get equal axes
PcaRuns(a, prims, mode) ==
    {ax \in [1..PcaCalls(a, prims, mode) -> Axes] :
        \A i \in 1..Len(ax) :
            /\ ax[i] \in pca_estimate(Take(a.coords, a.clusts[i]))
            /\ \A k \in 1..Len(ax) : a.clusts[k] = a.clusts[i] => ax[k] = ax[i]}

\* lines 136-156, after line 135 ended with a; axes are the axes pca_estimate
\* returned.  error "" is a return.
get_directions(a, prims, mode, normalize, axes) ==
    LET fail(e) == [error |-> e, directions |-> <<>>]
        raw == Array([i \in 1..Len(prims) |->
                  IF mode = "pca"
                  THEN pca_direction(Take(a.coords, a.clusts[i]), axes[i], prims[i])
                  ELSE centroid_estimate(Take(a.coords, a.clusts[i]), prims[i])])
    IN  IF a.stage = "dbscan" THEN fail(ErrDbscan)
        ELSE IF a.stage = "min" THEN fail(ErrMin)
        ELSE IF Len(a.clusts) # Len(prims) THEN fail(ErrConsistency)
        ELSE IF mode \notin {"pca", "cent"} THEN fail(ErrMode)
        ELSE IF mode = "pca" /\ Len(axes) < Len(prims) THEN fail(ErrPca)
        ELSE [error |-> "",
              directions |-> IF normalize
                             THEN Array([i \in 1..Len(prims) |-> DivideByNorm(raw[i])])
                             ELSE raw]

-----------------------------------------------------------------------------
(* The state machine *)

Init ==
    /\ eps \in EpsChoices
    /\ min_samples \in MinSamplesChoices
    /\ min_energy \in MinEnergyChoices
    /\ frag_labels = None
    /\ centroids = None
    /\ coords = None
    /\ labels = None
    /\ clusts = None
    /\ voxel_weights = None
    /\ primaries = None
    /\ directions = None
    /\ call = None
    /\ outcome = [kind |-> "none", error |-> "", value |-> <<>>]

\* what lines 39 and 95-100 assign, as far as the call got
Persist(a, prims) ==
    /\ frag_labels' = IF a.stage = "dbscan" THEN frag_labels ELSE Some(a.frag_labels)
    /\ centroids' = IF a.stage = "done" THEN Some(a.centroids) ELSE centroids
    /\ coords' = IF a.stage = "done" THEN Some(a.coords) ELSE coords
    /\ labels' = IF a.stage = "done" THEN Some(a.labels) ELSE labels
    /\ clusts' = IF a.stage = "done" THEN Some(a.clusts) ELSE clusts
    /\ voxel_weights' = IF a.stage = "done" THEN Some(a.voxel_weights) ELSE voxel_weights
    /\ primaries' = IF a.stage = "done" THEN Some(prims) ELSE primaries

Args(op, se, prims, maxd, mode, normalize, axes) ==
    [op |-> op, shower_energy |-> se, primaries |-> prims, max_distance |-> maxd,
     mode |-> mode, normalize |-> normalize, axes |-> axes]

\* FragmentEstimator.assign_frags_to_primary(shower_energy, primaries, max_distance)
AssignFragsToPrimary ==
    /\ call = None
    /\ \E se \in Clouds, prims \in PrimarySeqs, maxd \in MaxDistances :
        \E a \in {assign_frags_to_primary(se, prims, maxd, eps, min_samples, min_energy)} :
            /\ Persist(a, prims)
            /\ call' = Some(Args("assign_frags_to_primary", se, prims, maxd, "", FALSE, <<>>))
            /\ outcome' = IF a.stage = "dbscan"
                          THEN [kind |-> "raise", error |-> ErrDbscan, value |-> <<>>]
                          ELSE IF a.stage = "min"
                          THEN [kind |-> "raise", error |-> ErrMin, value |-> <<>>]
                          ELSE [kind |-> "return", error |-> "", value |-> <<>>]
    /\ UNCHANGED <<eps, min_samples, min_energy, directions>>

\* DirectionEstimator.get_directions(shower_energy, primaries, max_distance, mode,
\* normalize)
GetDirections ==
    /\ call = None
    /\ \E se \in Clouds, prims \in PrimarySeqs, maxd \in MaxDistances :
        \E a \in {assign_frags_to_primary(se, prims, maxd, eps, min_samples, min_energy)} :
        \E mode \in Modes, normalize \in BOOLEAN :
        \E axes \in PcaRuns(a, prims, mode) :
        \E r \in {get_directions(a, prims, mode, normalize, axes)} :
                /\ Persist(a, prims)
                /\ call' = Some(Args("get_directions", se, prims, maxd, mode, normalize, axes))
                /\ directions' = IF r.error = "" THEN Some(r.directions) ELSE directions
                /\ outcome' = IF r.error = ""
                              THEN [kind |-> "return", error |-> "", value |-> r.directions]
                              ELSE [kind |-> "raise", error |-> r.error, value |-> <<>>]
    /\ UNCHANGED <<eps, min_samples, min_energy>>

Next == AssignFragsToPrimary \/ GetDirections

Spec == Init /\ [][Next]_vars

-----------------------------------------------------------------------------
(* The call made, read back from the state *)

Called == call # None
IsGet == Called /\ call[1].op = "get_directions"
Failed == outcome.kind = "raise"
Returned == outcome.kind = "return"

\* line 135 (or the call itself) ran to its end
AssignDone == Called /\ outcome.error \notin {ErrDbscan, ErrMin}

NumPrimaries == Len(call[1].primaries)
Origin(j) == call[1].primaries[j]

\* the positions 1..n that satisfy Test, ascending
Ascending(n, Test(_)) == SelectSeq([k \in 1..n |-> k], Test)

\* the voxels of the call's cloud above the energy threshold, in cloud order:
\* their coordinates x, energies e and the labels l line 39 stored for them
Filtered ==
    LET pass == SelectSeq(call[1].shower_energy, LAMBDA v : v.e > min_energy)
    IN  [x |-> Array([k \in 1..Len(pass) |-> pass[k].x]),
         e |-> Array([k \in 1..Len(pass) |-> pass[k].e]),
         l |-> IF frag_labels = None THEN <<>> ELSE frag_labels[1]]

NumFiltered == Len(Filtered.x)

Dist(F, p, j) == Abs(F.x[p] - Origin(j))

\* the nearest filtered point to primary j, the first one among equals
Nearest(F, j) ==
    CHOOSE p \in 1..Len(F.x) :
        \A q \in 1..Len(F.x) :
            Dist(F, p, j) <= Dist(F, q, j) /\ (q < p => Dist(F, q, j) > Dist(F, p, j))

\* the fragment of each primary: the label of its nearest filtered point
Assigned(F) == Array([j \in 1..NumPrimaries |-> F.l[Nearest(F, j)]])

\* the distance from filtered point p to the primary nearest to it
MinDist(F, p) ==
    CHOOSE d \in {Dist(F, p, j) : j \in 1..NumPrimaries} :
        \A j \in 1..NumPrimaries : d <= Dist(F, p, j)

InRange(F, p) == call[1].max_distance.inf \/ MinDist(F, p) < call[1].max_distance.val

Matched(F, frag, p) == \E j \in 1..NumPrimaries : F.l[p] = frag[j]

Kept(F, frag) == Ascending(Len(F.x), LAMBDA p : Matched(F, frag, p) /\ InRange(F, p))

\* the persisted positions that carry label c, ascending
Members(c) == Ascending(Len(labels[1]), LAMBDA q : labels[1][q] = c)

PersistedFields == <<coords, labels, clusts, voxel_weights, primaries, directions>>

-----------------------------------------------------------------------------
(* Claims *)

C10_ClustsPerPrimary ==
    AssignDone =>
        \A F \in {Filtered} : \A frag \in {Assigned(F)} :
            (\A j \in 1..NumPrimaries : frag[j] # NOISE) =>
                /\ clusts # None /\ coords # None
                /\ Len(clusts[1]) = NumPrimaries
                /\ \A i \in 1..NumPrimaries :
                      /\ clusts[1][i] = Members(frag[i])
                      /\ \A k \in 1..Len(clusts[1][i]) :
                            \E p \in 1..Len(F.x) :
                                F.l[p] = frag[i] /\ F.x[p] = coords[1][clusts[1][i][k]]

\* two primaries on one fragment whose members sit at other positions of the
\* restricted arrays than of the filtered ones
C10_Witness ==
    /\ AssignDone /\ NumPrimaries = 2
    /\ Len(clusts[1]) = 2 /\ clusts[1][1] = clusts[1][2] /\ Len(clusts[1][1]) >= 2
    /\ \A F \in {Filtered} : \A frag \in {Assigned(F)} :
          /\ frag[1] # NOISE /\ frag[2] = frag[1]
          /\ \E k \in 1..Len(clusts[1][1]) : F.l[clusts[1][1][k]] # frag[1]

\* the members of primary i's fragment, and the mean of their coordinates
\* relative to the primary
MemberCoords(i) == Take(coords[1], clusts[1][i])
MeanRel(i) == Vec(Sum(MemberCoords(i)) - Len(MemberCoords(i)) * Origin(i), 0,
                  Len(MemberCoords(i)))

NoNaN(ds) == \A i \in 1..Len(ds) : ~IsNaN(ds[i])

\* C1: get_directions with a mode that is not recognised fails with the
\* invalid-argument error before any clustering, and leaves the persisted
\* fields as they were.  (Stated for the calls with a voxel above the energy
\* threshold and a primary, where the libraries called on the way accept
\* their input.)
C1_InvalidModeFailsFirst ==
    [][(call' # None /\ call'[1].op = "get_directions"
            /\ call'[1].mode \notin {"pca", "cent"}
            /\ Len(call'[1].primaries) >= 1
            /\ \E i \in 1..Len(call'[1].shower_energy) :
                  call'[1].shower_energy[i].e > min_energy)
        => /\ outcome'.error = ErrMode
           /\ frag_labels' = frag_labels
           /\ PersistedFields' = PersistedFields]_vars

\* C2: a get_directions call that fails leaves every persisted field unchanged.
C2_FailedCallKeepsPersisted ==
    [][(call' # None /\ call'[1].op = "get_directions" /\ outcome'.kind = "raise")
        => PersistedFields' = PersistedFields]_vars

\* C3: with normalize requested, a direction of zero norm makes the call fail;
\* no direction set with a NaN vector is returned or persisted.  (Every
\* primary has members here, so that a NaN can only come from a zero norm.)
C3_ZeroNormIsAnError ==
    (IsGet /\ call[1].normalize /\ AssignDone
        /\ \A i \in 1..Len(clusts[1]) : clusts[1][i] # <<>>)
    => /\ Returned => NoNaN(outcome.value)
       /\ directions # None => NoNaN(directions[1])

\* C5: with a finite max_distance, a call that returns has at least one
\* retained member for every primary, in both modes.
C5_EmptyFragmentFails ==
    (IsGet /\ ~call[1].max_distance.inf /\ Returned)
    => \A i \in 1..NumPrimaries : clusts[1][i] # <<>>

\* C6: with no primaries, or no point above the energy threshold, the call
\* returns an empty direction set; except that no point and at least one
\* primary is the consistency error.
C6_EmptyInputsDoNotFail ==
    (IsGet /\ call[1].mode \in {"pca", "cent"}
        /\ (NumPrimaries = 0 \/ NumFiltered = 0))
    => IF NumFiltered = 0 /\ NumPrimaries >= 1
       THEN outcome.error = ErrConsistency
       ELSE Returned /\ outcome.value = <<>>

\* C7: in principal-axis mode the direction before normalization is the raw
\* axis, negated when its dot product with the mean of the members relative to
\* the primary is negative, and unchanged when it is zero or positive.
C7_ZeroDotKeepsAxis ==
    (IsGet /\ call[1].mode = "pca" /\ ~call[1].normalize /\ Returned)
    => \A i \in 1..NumPrimaries :
          outcome.value[i] =
              IF DotSign(call[1].axes[i], MeanRel(i)) < 0
              THEN Scale(call[1].axes[i], -1)
              ELSE call[1].axes[i]

\* C8: in principal-axis mode every returned direction has a dot product >= 0
\* with the mean of the members relative to the primary.
C8_ParityNonNegative ==
    (IsGet /\ call[1].mode = "pca" /\ Returned)
    => \A i \in 1..NumPrimaries :
          ~IsNaN(outcome.value[i]) /\ DotSign(outcome.value[i], MeanRel(i)) >= 0

=============================================================================
